---- MODULE Spec2Model ----
(***************************************************************************)
(* Model of execute_mcp_tool (src/tools.py): the hand-rolled MCP client    *)
(* that enforces the board parameter, negotiates a session, sends one      *)
(* tools/call request and decodes the SSE-formatted reply into an outcome  *)
(* mapping.                                                                *)
(*                                                                         *)
(* Strings are modelled as sequences of tokens, so that Python's substring *)
(* test  m in s  becomes "some token of s is m": every word the code       *)
(* searches for is a token of its own wherever it occurs.  JSON texts are  *)
(* modelled by what json.loads makes of them.                              *)
(*                                                                         *)
(* The tool functions of the agents (src/working_agent.py,                 *)
(* src/perfect_agent.py, src/mvp_agent.py, src/final_mvp_agent.py) and two *)
(* concurrent invocations of execute_mcp_tool have specifications of their *)
(* own, AgentSpec and PairSpec, over their own variables; AgentFairSpec is *)
(* AgentSpec under the scheduling of the event loop.                       *)
(***************************************************************************)
EXTENDS Integers, Sequences, FiniteSets, TLC

VARIABLES
    config,          \* module globals MONDAY_BOARD_ID / MCP_SERVER_URL
    pc,              \* position of the process / of the one invocation
    tool_name,       \* argument tool_name of the current invocation
    heap,            \* the dict objects: the caller's mapping and the copy
    enforced_ref,    \* the object the local enforced_parameters refers to
    params_before,   \* the caller's mapping as it was when the call started
    session_id,      \* local session_id
    wire,            \* the requests posted so far by this invocation
    init_response,   \* the response received to the initialize request
    tool_response,   \* the response received to the tools/call request
    outcome,         \* what the invocation gave back to its caller
    \* one request to a tool function of an agent
    agent_pc,        \* position of the tool function
    request,         \* the agent module, the function and its task_name
    primary,         \* the invocation of execute_mcp_tool the function awaits
    background,      \* the tasks made with asyncio.create_task, in order
    returned,        \* the strings the function returned to the voice runtime
    said,            \* the texts given to current_session.say
    current_session, \* module global current_session of perfect_agent.py
    \* two invocations of execute_mcp_tool in one event loop
    calls,           \* the two invocations
    slots            \* where the session_id of each invocation is kept

callVars == <<tool_name, heap, enforced_ref, params_before, session_id, wire,
              init_response, tool_response, outcome>>
agentVars == <<agent_pc, request, primary, background, returned, said,
               current_session>>
pairVars == <<calls, slots>>
vars == <<config, pc, callVars, agentVars, pairVars>>

(***************************************************************************)
(* Bounds of the model.                                                    *)
(***************************************************************************)
MaxLines == 2        \* lines in a tool-call response body

(***************************************************************************)
(* Python values.                                                          *)
(***************************************************************************)
None == "<None>"                      \* Python's None, where a string may be
PyStr(s) == [ty |-> "str", v |-> s]
PyInt(s) == [ty |-> "int", v |-> s]
Absent == [ty |-> "absent", v |-> ""] \* the key is not in the mapping

\* str(x): the text of x; a str is returned as it is, an int as its digits
Str(x) == [ty |-> "str", v |-> x.v]

Keys == {"boardId", "itemTitle"}
EmptyDict == [k \in Keys |-> Absent]
HasKey(d, k) == d[k] # Absent
SetItem(d, k, x) == [d EXCEPT ![k] = x]

ConfiguredBoard == "9000000001"       \* a value of MONDAY_BOARD_ID in .env
AgentBoard == "2034046752"            \* main_board_id of the agents
ServerUrl == "http://localhost:8000/mcp"

\* what os.getenv can give for the two variables
Environments ==
    { [board |-> b, url |-> u] : b \in {None, "", ConfiguredBoard},
                                 u \in {None, ServerUrl} }

\* Python truthiness of an optional string
Truthy(s) == s # None /\ s # ""

ToolNames == {"monday_create_item", "monday_get_board_groups",
              "monday_get_board_columns", "monday_list_boards"}

CallerDicts ==
    { [boardId |-> b, itemTitle |-> t] :
        b \in {Absent, PyStr(ConfiguredBoard), PyStr(AgentBoard), PyInt(AgentBoard)},
        t \in {Absent, PyStr("X")} }

(***************************************************************************)
(* Strings as token sequences; JSON values as json.loads returns them.     *)
(***************************************************************************)
\* Python's  marker in s  on strings
Contains(s, marker) == \E i \in 1..Len(s) : s[i] = marker

\* --- the `text` of a content item -------------------------------------
\* first: the first character of text.strip(); loads: what json.loads(text)
\* gives ("object" with the keys `keys`, "array", or "error" for a
\* JSONDecodeError)
NoText == [ty |-> "null", s |-> <<>>, first |-> "", loads |-> "error", keys |-> {}]
PlainText(s) == [ty |-> "str", s |-> s, first |-> "a", loads |-> "error", keys |-> {}]
JsonObjectText(keys) ==
    [ty |-> "str", s |-> <<"{..}">>, first |-> "{", loads |-> "object", keys |-> keys]
JsonArrayText ==
    [ty |-> "str", s |-> <<"[..]">>, first |-> "[", loads |-> "array", keys |-> {}]
BrokenJsonText ==
    [ty |-> "str", s |-> <<"{bad">>, first |-> "{", loads |-> "error", keys |-> {}]
IntText == [ty |-> "int", s |-> <<"7">>, first |-> "", loads |-> "error", keys |-> {}]

\* --- one element of the `content` list --------------------------------
ItemWithText(t) == [has_text |-> TRUE, text |-> t]
ItemWithoutText == [has_text |-> FALSE, text |-> NoText]

\* --- the `result` member of a message ---------------------------------
NoResult == [ty |-> "absent", has_content |-> FALSE, content |-> <<>>, has_server_info |-> FALSE]
NullResult == [NoResult EXCEPT !.ty = "null"]
StringResult == [NoResult EXCEPT !.ty = "string"]
ObjectResult == [NoResult EXCEPT !.ty = "object"]
ContentResult(items) == [ObjectResult EXCEPT !.has_content = TRUE, !.content = items]
\* the result of initialize: {"serverInfo": {"name": .., "version": ..}, ..}
ServerInfoResult == [ObjectResult EXCEPT !.has_server_info = TRUE]
TextResult(t) == ContentResult(<<ItemWithText(t)>>)

\* --- the `error` member of a message ----------------------------------
NoMessage == [ty |-> "absent", s |-> <<>>]
NoError == [ty |-> "absent", message |-> NoMessage]
StringError == [ty |-> "string", message |-> NoMessage]
ObjectError(m) == [ty |-> "object", message |-> m]
StrMessage(s) == [ty |-> "str", s |-> s]
NullMessage == [ty |-> "null", s |-> <<>>]

\* --- a JSON value decoded from a data line ----------------------------
\* id 0 stands for a message without an `id` member
Scalar(ty, s) == [ty |-> ty, id |-> 0, result |-> NoResult, error |-> NoError, s |-> s]
Message(id, r, e) == [ty |-> "object", id |-> id, result |-> r, error |-> e, s |-> <<>>]
ResultMessage(id, r) == Message(id, r, NoError)
ErrorMessage(id, e) == Message(id, NoResult, e)

\* the text after the data prefix: valid JSON for `value`, or not JSON
ValidJson(v) == [valid |-> TRUE, value |-> v]
InvalidJson == [valid |-> FALSE, value |-> Scalar("null", <<>>)]

\* --- one line of a response body (text.split('\n')) --------------------
\* lead: the line begins with white space; kind: "blank" (white space
\* only), "field" (any other line without the data prefix, such as
\* `event: message`), "data" (the prefix `data: ` followed by `json`)
BlankLine == [lead |-> FALSE, kind |-> "blank", json |-> InvalidJson]
FieldLine == [lead |-> FALSE, kind |-> "field", json |-> InvalidJson]
DataLine(j) == [lead |-> FALSE, kind |-> "data", json |-> j]
Indented(l) == [l EXCEPT !.lead = TRUE]

\* line.startswith('data: ')
StartsWithData(l) == l.kind = "data" /\ ~l.lead

(***************************************************************************)
(* Outcomes: what execute_mcp_tool hands to its caller.  A returned value  *)
(* is described by its type, its keys and the texts under `result` and     *)
(* `error`; a raised exception by its name.                                *)
(***************************************************************************)
NoOutcome == [kind |-> "none", ty |-> "", keys |-> {}, result |-> <<>>, error |-> <<>>]
Returned(ty, keys, r, e) ==
    [kind |-> "return", ty |-> ty, keys |-> keys, result |-> r, error |-> e]
ResultOutcome(s) == Returned("dict", {"result"}, s, <<>>)
ErrorOutcome(s) == Returned("dict", {"error"}, <<>>, s)
Raised(exc) == [kind |-> "raise", ty |-> exc, keys |-> {}, result |-> <<>>, error |-> <<>>]

\* inside the try block: an exception on its way to the handlers, and the
\* `continue` of the decoding loop
Except(exc) == [kind |-> "except", ty |-> exc, keys |-> {}, result |-> <<>>, error |-> <<>>]
Continue == [kind |-> "continue", ty |-> "", keys |-> {}, result |-> <<>>, error |-> <<>>]

\* except Exception as e: return {"error": f"An unexpected error occurred: {str(e)}"}
UnexpectedError(exc) == ErrorOutcome(<<"An unexpected ", "error", " occurred: ", exc>>)
\* except httpx.HTTPStatusError as e: return {"error": f"MCP server HTTP error: {status}"}
HttpError(status) == ErrorOutcome(<<"MCP server HTTP ", "error", ": ", ToString(status)>>)
ParseFailure == ErrorOutcome(<<"Failed to parse MCP server response">>)
DefaultSuccess == ResultOutcome(<<"Tool executed ", "successfully">>)
TransportLimitation == 
    Returned("dict", {"error", "status", "detail", "suggestion"}, <<>>,
             <<"FastMCP HTTP transport limitation - using fallback mode">>)

(***************************************************************************)
(* Decoding of the tools/call response.                                    *)
(***************************************************************************)
\* Python's  key in v  for a decoded JSON value v; on a number or null it
\* raises TypeError (InRaises)
InRaises(v) == v.ty \in {"number", "null"}
In(key, v) ==
    CASE v.ty = "object" -> IF key = "result" THEN v.result.ty # "absent"
                            ELSE v.error.ty # "absent"
      [] v.ty = "string" -> Contains(v.s, key)
      [] OTHER -> FALSE

\* the text branch: content_item["text"]
ExtractText(t) ==
    IF t.ty # "str" THEN Except("AttributeError")
    ELSE IF t.first \in {"{", "["}
         THEN CASE t.loads = "object" -> Returned("dict", t.keys, <<>>, <<>>)
                [] t.loads = "array" -> Returned("list", {}, <<>>, <<>>)
                [] OTHER -> ResultOutcome(t.s)
         ELSE ResultOutcome(t.s)

\* the branch  if "result" in tool_result
ExtractResult(v) ==
    IF v.ty # "object" THEN Except("TypeError")
    ELSE LET result == v.result IN
         IF result.ty = "null" THEN Except("TypeError")
         ELSE IF result.ty = "object" /\ result.has_content /\ Len(result.content) > 0
              THEN LET content_item == result.content[1] IN
                   IF content_item.has_text
                   THEN ExtractText(content_item.text)
                   ELSE ResultOutcome(<<"str(content_item)">>)
              ELSE DefaultSuccess

\* the branch  elif "error" in tool_result
ExtractError(v) ==
    IF v.ty # "object" THEN Except("TypeError")
    ELSE IF v.error.ty # "object" THEN Except("AttributeError")
    ELSE LET error_msg == IF v.error.message.ty = "absent"
                          THEN StrMessage(<<"Unknown MCP error">>)
                          ELSE v.error.message IN
         IF error_msg.ty # "str" THEN Except("TypeError")
         ELSE IF Contains(error_msg.s, "Invalid request parameters")
              THEN TransportLimitation
              ELSE ErrorOutcome(error_msg.s)

\* the body of the inner try for one decoded value
HandleMessage(v) ==
    IF InRaises(v) THEN Except("TypeError")
    ELSE IF In("result", v) THEN ExtractResult(v)
    ELSE IF In("error", v) THEN ExtractError(v)
    ELSE Continue

\* one pass of  for line in tool_text.split('\n')
HandleLine(line) ==
    IF ~StartsWithData(line) THEN Continue
    ELSE IF ~line.json.valid THEN Continue          \* except json.JSONDecodeError
    ELSE HandleMessage(line.json.value)

RECURSIVE DecodeFrom(_, _)
DecodeFrom(lines, i) ==
    IF i > Len(lines) THEN ParseFailure
    ELSE LET r == HandleLine(lines[i]) IN
         IF r.kind = "continue" THEN DecodeFrom(lines, i + 1) ELSE r

\* text.strip().split('\n') on a text given as its lines: white space at
\* both ends goes, and with it the blank lines there and the indentation of
\* the first line left; the empty text splits into one empty line
RECURSIVE DropBlankHead(_)
DropBlankHead(lines) ==
    IF lines = <<>> THEN <<>>
    ELSE IF Head(lines).kind = "blank" THEN DropBlankHead(Tail(lines))
    ELSE lines
RECURSIVE DropBlankTail(_)
DropBlankTail(lines) ==
    IF lines = <<>> THEN <<>>
    ELSE IF lines[Len(lines)].kind = "blank"
         THEN DropBlankTail(SubSeq(lines, 1, Len(lines) - 1))
    ELSE lines
StripSplit(lines) ==
    LET core == DropBlankTail(DropBlankHead(lines)) IN
    IF core = <<>> THEN <<BlankLine>>
    ELSE <<[core[1] EXCEPT !.lead = FALSE]>> \o Tail(core)

\* the loop of lines 161-208 over the given lines, with the handler of
\* lines 213-215 applied to what escapes it
DecodeLines_unhandled(lines) ==
    LET r == DecodeFrom(lines, 1) IN
    IF r.kind = "except" THEN Raised(r.ty) ELSE r
DecodeLines(lines) ==
    LET r == DecodeFrom(lines, 1) IN
    IF r.kind = "except" THEN UnexpectedError(r.ty) ELSE r

\* lines 156-208: tool_text = tool_response.text.strip(), then the loop
DecodeToolResponse(body) == DecodeLines(StripSplit(body))

(***************************************************************************)
(* The handshake.                                                          *)
(***************************************************************************)
InitRequestId == 1
ToolRequestId == 2

\* the header names tried for the session token, in this order
SessionHeaderNames == <<"mcp-session-id", "x-session-id", "session-id">>
NoHeaders == [h \in {SessionHeaderNames[i] : i \in 1..Len(SessionHeaderNames)} |-> None]

\* for header_name in [...]: the first candidate with a truthy value
RECURSIVE ScanHeaders(_, _)
ScanHeaders(headers, i) ==
    IF i > Len(SessionHeaderNames) THEN None
    ELSE IF Truthy(headers[SessionHeaderNames[i]]) THEN headers[SessionHeaderNames[i]]
    ELSE ScanHeaders(headers, i + 1)
ExtractSessionId_firstonly(headers) == headers[SessionHeaderNames[1]]
ExtractSessionId(headers) == ScanHeaders(headers, 1)

\* for line in init_text.split('\n'): "ok" when the loop ends or breaks,
\* otherwise the exception that leaves it (no handler inside this loop)
RECURSIVE ParseInitFrom_lenient(_, _)
ParseInitFrom_lenient(lines, i) ==
    IF i > Len(lines) THEN "ok"
    ELSE LET line == lines[i]
             v == line.json.value IN
         IF ~StartsWithData(line) THEN ParseInitFrom_lenient(lines, i + 1)
         ELSE IF ~line.json.valid THEN ParseInitFrom_lenient(lines, i + 1)
         ELSE IF InRaises(v) THEN "TypeError"
         ELSE IF In("result", v)
              THEN IF v.ty # "object" \/ v.result.ty # "object" THEN "TypeError"
                   ELSE IF ~v.result.has_server_info THEN "KeyError"
                   ELSE "ok"
         ELSE ParseInitFrom_lenient(lines, i + 1)
RECURSIVE ParseInitFrom(_, _)
ParseInitFrom(lines, i) ==
    IF i > Len(lines) THEN "ok"
    ELSE LET line == lines[i]
             v == line.json.value IN
         IF ~StartsWithData(line) THEN ParseInitFrom(lines, i + 1)
         ELSE IF ~line.json.valid THEN "JSONDecodeError"
         ELSE IF InRaises(v) THEN "TypeError"
         ELSE IF In("result", v)
              THEN IF v.ty # "object" \/ v.result.ty # "object" THEN "TypeError"
                   ELSE IF ~v.result.has_server_info THEN "KeyError"
                   ELSE "ok"                                     \* break
         ELSE ParseInitFrom(lines, i + 1)
ParseInit(body) == ParseInitFrom(StripSplit(body), 1)

(***************************************************************************)
(* Requests on the wire.                                                   *)
(***************************************************************************)
\* session: the value of the request header `mcp-session-id`, None when
\* the header is not set
Request(method, id, name, arguments, session) ==
    [method |-> method, id |-> id, name |-> name, arguments |-> arguments,
     session |-> session]
InitRequest == Request("initialize", InitRequestId, "", EmptyDict, None)
NotifyRequest(sid) == Request("notifications/initialized", 0, "", EmptyDict, sid)
\* tool_headers["mcp-session-id"] only if session_id is truthy
ToolRequest_nosession(name, arguments, sid) ==
    Request("tools/call", ToolRequestId, name, arguments, None)
ToolRequest(name, arguments, sid) ==
    Request("tools/call", ToolRequestId, name, arguments, sid)

(***************************************************************************)
(* Parameter enforcement (lines 30-36).                                    *)
(***************************************************************************)
CallerObject == "parameters"
CopyObject == "enforced_parameters"

PolicyTools_two == {"monday_create_item", "monday_get_board_groups"}
PolicyTools == {"monday_create_item", "monday_get_board_groups",
                "monday_get_board_columns"}

\* dict(parameters): the object the new name refers to (a fresh one, not
\* the argument)
NewDict_alias(src) == src
NewDict(src) == CopyObject

Enforce_overwrite(h, tool, board) ==
    LET ref == NewDict(CallerObject)
        copied == [h EXCEPT ![ref] = h[CallerObject]] IN
    IF tool \in PolicyTools
    THEN [copied EXCEPT ![ref] = SetItem(@, "boardId", Str(PyStr(board)))]
    ELSE copied

\* the heap after  enforced_parameters = dict(parameters)  and the
\* conditional  enforced_parameters["boardId"] = str(MONDAY_BOARD_ID)
Enforce(h, tool, board) ==
    LET ref == NewDict(CallerObject)
        copied == [h EXCEPT ![ref] = h[CallerObject]] IN
    IF tool \in PolicyTools /\ ~HasKey(copied[ref], "boardId")
    THEN [copied EXCEPT ![ref] = SetItem(@, "boardId", Str(PyStr(board)))]
    ELSE copied

(***************************************************************************)
(* What the server and the network may answer.                             *)
(***************************************************************************)
\* ok: the POST returned a response (otherwise httpx raised, e.g.
\* ConnectError or a timeout)
Response(status, headers, body) ==
    [ok |-> TRUE, status |-> status, headers |-> headers, body |-> body]
NoResponse == [ok |-> FALSE, status |-> 0, headers |-> NoHeaders, body |-> <<>>]
\* response.raise_for_status() passes
IsSuccess(status) == status \in 200..299

TokenA == "session-A"
TokenB == "session-B"
HeaderSets ==
    { NoHeaders,
      [NoHeaders EXCEPT !["mcp-session-id"] = TokenA, !["x-session-id"] = TokenB],
      [NoHeaders EXCEPT !["mcp-session-id"] = "", !["session-id"] = TokenB] }

InitResultLine == DataLine(ValidJson(ResultMessage(InitRequestId, ServerInfoResult)))
InitErrorLine ==
    DataLine(ValidJson(ErrorMessage(InitRequestId,
                                    ObjectError(StrMessage(<<"Unsupported protocol">>)))))
InvalidDataLine == DataLine(InvalidJson)
InitBodies ==
    { <<FieldLine, InitResultLine, BlankLine>>,
      <<InitErrorLine>>,
      <<BlankLine>>,
      <<InvalidDataLine>>,
      <<InitResultLine, InvalidDataLine>>,
      <<InitErrorLine, InvalidDataLine>>,
      <<DataLine(ValidJson(ResultMessage(InitRequestId, ObjectResult)))>>,
      <<DataLine(ValidJson(Scalar("number", <<"5">>)))>> }
InitResponses ==
    {NoResponse}
    \cup {Response(500, NoHeaders, <<InitResultLine>>)}
    \cup {Response(200, h, b) : h \in HeaderSets, b \in InitBodies}

NotifyResponses ==
    {NoResponse, Response(202, NoHeaders, <<BlankLine>>),
     Response(400, NoHeaders, <<BlankLine>>)}

\* messages of a tools/call reply; 9 is the id of some other request
CreatedText == <<"Item ", "created", " ", "successfully">>
ConflictText == <<"Error", ": ", "You can set either", " board_id or group_id, not both">>
TextMessage(id, s) == ResultMessage(id, TextResult(PlainText(s)))
FailureMessage(id, s) == ErrorMessage(id, ObjectError(StrMessage(s)))

CoreLines ==
    { BlankLine,
      FieldLine,
      InvalidDataLine,
      DataLine(ValidJson(TextMessage(ToolRequestId, CreatedText))),
      DataLine(ValidJson(TextMessage(9, <<"reply to another request">>))),
      DataLine(ValidJson(FailureMessage(9, <<"another request failed">>))),
      DataLine(ValidJson(FailureMessage(ToolRequestId, ConflictText))),
      DataLine(ValidJson(ResultMessage(ToolRequestId, TextResult(JsonObjectText({"items"}))))),
      DataLine(ValidJson(Scalar("number", <<"5">>))),
      Indented(DataLine(ValidJson(ResultMessage(ToolRequestId, ObjectResult)))) }

\* further shapes, each met as a one-line body
ExtraLines ==
    { DataLine(ValidJson(m)) : m \in
        { ResultMessage(ToolRequestId, TextResult(JsonObjectText({"result", "error"}))),
          ResultMessage(ToolRequestId, TextResult(JsonArrayText)),
          ResultMessage(ToolRequestId, TextResult(BrokenJsonText)),
          ResultMessage(ToolRequestId, TextResult(IntText)),
          ResultMessage(ToolRequestId, ContentResult(<<ItemWithoutText>>)),
          ResultMessage(ToolRequestId, ContentResult(<<>>)),
          ResultMessage(ToolRequestId, NullResult),
          ResultMessage(ToolRequestId, StringResult),
          FailureMessage(ToolRequestId, <<"Invalid request parameters">>),
          ErrorMessage(ToolRequestId, ObjectError(NoMessage)),
          ErrorMessage(ToolRequestId, ObjectError(NullMessage)),
          ErrorMessage(ToolRequestId, StringError),
          Message(ToolRequestId, NoResult, NoError),
          Scalar("array", <<>>),
          Scalar("null", <<>>),
          Scalar("string", <<"the ", "result">>),
          Scalar("string", <<"an ", "error">>),
          Scalar("string", <<"pong">>) } }

ToolBodies ==
    UNION {[1..n -> CoreLines] : n \in 1..MaxLines} \cup {<<l>> : l \in ExtraLines}

ToolResponses ==
    {NoResponse}
    \cup {Response(500, NoHeaders, b) :
            b \in {<<DataLine(ValidJson(TextMessage(ToolRequestId, CreatedText)))>>}}
    \cup {Response(200, NoHeaders, b) : b \in ToolBodies}

(***************************************************************************)
(* The process and one invocation of execute_mcp_tool.                     *)
(***************************************************************************)
NoHeap == [o \in {CallerObject, CopyObject} |-> EmptyDict]

Idle ==
    /\ tool_name = ""
    /\ heap = NoHeap
    /\ enforced_ref = None
    /\ params_before = EmptyDict
    /\ session_id = None
    /\ wire = <<>>
    /\ init_response = NoResponse
    /\ tool_response = NoResponse
    /\ outcome = NoOutcome

\* an invocation of execute_mcp_tool as a value: its position, its arguments
\* (parameters) and locals (arguments is enforced_parameters), the requests
\* it posted, the responses it received and what it gave back
NoInvocation ==
    [pc |-> "none", tool_name |-> "", parameters |-> EmptyDict,
     arguments |-> EmptyDict, session_id |-> None, wire |-> <<>>,
     init_response |-> NoResponse, notify_response |-> NoResponse,
     tool_response |-> NoResponse, outcome |-> NoOutcome]
NoRequest == [module |-> "", fn |-> "", task_name |-> "", session |-> None]

\* no tool function of an agent is running
AgentAtRest ==
    /\ agent_pc = "idle"
    /\ request = NoRequest
    /\ primary = NoInvocation
    /\ background = <<>>
    /\ returned = <<>>
    /\ said = <<>>
    /\ current_session = None

\* no pair of concurrent invocations is running
PairAtRest ==
    /\ calls = [i \in {1, 2} |-> NoInvocation]
    /\ slots = [i \in {1, 2} |-> None]

Init ==
    /\ pc = "boot"
    /\ config = [board |-> None, url |-> None]
    /\ Idle
    /\ AgentAtRest
    /\ PairAtRest

\* import of tools.py: load_dotenv() and the two os.getenv (lines 14-18);
\* nothing is checked here
Startup ==
    /\ pc = "boot"
    /\ \E env \in Environments : config' = env
    /\ pc' = "idle"
    /\ UNCHANGED <<tool_name, heap, enforced_ref, params_before, session_id, wire,
                   init_response, tool_response, outcome>>
    /\ UNCHANGED <<agentVars, pairVars>>

\* execute_mcp_tool(t, A) up to the first await (lines 25-73)
Call ==
    /\ pc = "idle"
    /\ \E t \in ToolNames, A \in CallerDicts :
        LET h == [NoHeap EXCEPT ![CallerObject] = A] IN
        /\ tool_name' = t
        /\ params_before' = A
        /\ IF ~Truthy(config.board) \/ ~Truthy(config.url)
           THEN /\ outcome' = Raised("ValueError")
                /\ heap' = h
                /\ enforced_ref' = None
                /\ wire' = <<>>
                /\ pc' = "done"
           ELSE /\ outcome' = NoOutcome
                /\ heap' = Enforce(h, t, config.board)
                /\ enforced_ref' = NewDict(CallerObject)
                /\ wire' = <<InitRequest>>
                /\ pc' = "await_init"
    /\ UNCHANGED <<config, session_id, init_response, tool_response>>
    /\ UNCHANGED <<agentVars, pairVars>>

\* the tools/call request of lines 124-153
SendToolRequest_twice(sid) ==
    wire' = wire \o <<ToolRequest(tool_name, heap[enforced_ref], sid),
                      ToolRequest(tool_name, heap[enforced_ref], sid)>>
SendToolRequest(sid) ==
    wire' = Append(wire, ToolRequest(tool_name, heap[enforced_ref], sid))

\* the initialize response arrives (lines 74-121, or a handler of 210-215)
RecvInit ==
    /\ pc = "await_init"
    /\ \E resp \in InitResponses :
        /\ init_response' = resp
        /\ IF ~resp.ok
           THEN /\ outcome' = UnexpectedError("ConnectError")
                /\ pc' = "done"
                /\ UNCHANGED <<session_id, wire>>
           ELSE IF ~IsSuccess(resp.status)
           THEN /\ outcome' = HttpError(resp.status)
                /\ pc' = "done"
                /\ UNCHANGED <<session_id, wire>>
           ELSE LET sid == ExtractSessionId(resp.headers)
                    parsed == ParseInit(resp.body) IN
                /\ session_id' = sid
                /\ IF parsed # "ok"
                   THEN /\ outcome' = UnexpectedError(parsed)
                        /\ pc' = "done"
                        /\ UNCHANGED wire
                   ELSE IF Truthy(sid)
                   THEN /\ wire' = Append(wire, NotifyRequest(sid))
                        /\ pc' = "await_notify"
                        /\ UNCHANGED outcome
                   ELSE /\ SendToolRequest(sid)
                        /\ pc' = "await_tool"
                        /\ UNCHANGED outcome
    /\ UNCHANGED <<config, tool_name, heap, enforced_ref, params_before, tool_response>>
    /\ UNCHANGED <<agentVars, pairVars>>

\* the POST of the notification completes (lines 111-153); its status is
\* not looked at, an exception of the POST goes to the handler of line 213
RecvNotify ==
    /\ pc = "await_notify"
    /\ \E resp \in NotifyResponses :
        IF ~resp.ok
        THEN /\ outcome' = UnexpectedError("ConnectError")
             /\ pc' = "done"
             /\ UNCHANGED wire
        ELSE /\ SendToolRequest(session_id)
             /\ pc' = "await_tool"
             /\ UNCHANGED outcome
    /\ UNCHANGED <<config, tool_name, heap, enforced_ref, params_before, session_id,
                   init_response, tool_response>>
    /\ UNCHANGED <<agentVars, pairVars>>

\* lines 149-215 from the completion of the POST: an exception of the POST,
\* raise_for_status(), then the decoding of the body
HandleToolResponse_unchecked(resp) ==
    IF ~resp.ok THEN UnexpectedError("ConnectError")
    ELSE DecodeToolResponse(resp.body)
HandleToolResponse(resp) ==
    IF ~resp.ok THEN UnexpectedError("ConnectError")
    ELSE IF ~IsSuccess(resp.status) THEN HttpError(resp.status)
    ELSE DecodeToolResponse(resp.body)

\* the tools/call response arrives (lines 154-215)
RecvTool ==
    /\ pc = "await_tool"
    /\ \E resp \in ToolResponses :
        /\ tool_response' = resp
        /\ outcome' = HandleToolResponse(resp)
    /\ pc' = "done"
    /\ UNCHANGED <<config, tool_name, heap, enforced_ref, params_before, session_id,
                   wire, init_response>>
    /\ UNCHANGED <<agentVars, pairVars>>

\* the caller has taken the outcome; the locals of the invocation are gone
Return ==
    /\ pc = "done"
    /\ pc' = "idle"
    /\ tool_name' = ""
    /\ heap' = NoHeap
    /\ enforced_ref' = None
    /\ params_before' = EmptyDict
    /\ session_id' = None
    /\ wire' = <<>>
    /\ init_response' = NoResponse
    /\ tool_response' = NoResponse
    /\ outcome' = NoOutcome
    /\ UNCHANGED config
    /\ UNCHANGED <<agentVars, pairVars>>

Next == Startup \/ Call \/ RecvInit \/ RecvNotify \/ RecvTool \/ Return

Spec == Init /\ [][Next]_vars

(***************************************************************************)
(* Properties.                                                             *)
(***************************************************************************)
Configured == Truthy(config.board) /\ Truthy(config.url)
\* the invocation has returned after decoding a 2xx tools/call response
Decoded == pc = "done" /\ tool_response.ok /\ IsSuccess(tool_response.status)
ToolRequestsSent == {i \in 1..Len(wire) : wire[i].method = "tools/call"}
\* a line as the loop sees it: a data line whose JSON is a message
\* (an object) with a `result` / an `error` member
IsResultLine(l) ==
    StartsWithData(l) /\ l.json.valid /\ l.json.value.ty = "object"
    /\ l.json.value.result.ty # "absent"
IsErrorLine(l) ==
    StartsWithData(l) /\ l.json.valid /\ l.json.value.ty = "object"
    /\ l.json.value.result.ty = "absent" /\ l.json.value.error.ty # "absent"

\* C1: every value execute_mcp_tool returns is a mapping with exactly one
\* of the keys `result` and `error`, also when the text of the first
\* content item is returned as parsed JSON.
C1_ResultXorError ==
    (pc = "done" /\ outcome.kind = "return")
        => /\ outcome.ty = "dict"
           /\ ("result" \in outcome.keys) # ("error" \in outcome.keys)

\* the failures of transport and protocol: no response, a non-2xx status,
\* an initialize body that does not parse, a failed notification POST, a
\* tools/call body whose data lines are all malformed or not objects
C2_TransportFailure ==
    \/ ~init_response.ok
    \/ ~IsSuccess(init_response.status)
    \/ ParseInit(init_response.body) # "ok"
    \/ (Len(wire) > 0 /\ wire[Len(wire)].method = "notifications/initialized")
    \/ (Len(wire) > 0 /\ wire[Len(wire)].method = "tools/call"
        /\ (\/ ~tool_response.ok
            \/ ~IsSuccess(tool_response.status)
            \/ \A i \in 1..Len(tool_response.body) :
                 LET l == tool_response.body[i] IN
                 l.kind = "data" => (~l.json.valid \/ l.json.value.ty # "object")))
\* C2: once a request has gone out, whatever the network and the server do
\* (connection error, non-2xx status, undecodable initialize body, a data
\* line of any shape) the invocation ends by returning a value, and in the
\* failure cases that value is a mapping with the single key `error`.
C2_NeverRaises ==
    (pc = "done" /\ wire # <<>>)
        => /\ outcome.kind = "return"
           /\ C2_TransportFailure => (outcome.ty = "dict" /\ outcome.keys = {"error"})
C2_Witness ==
    /\ Decoded
    /\ \E i \in 1..Len(tool_response.body) :
         /\ tool_response.body[i].kind = "data"
         /\ tool_response.body[i].json.valid
         /\ tool_response.body[i].json.value.ty = "number"
    /\ outcome = UnexpectedError("TypeError")

\* the caller's mapping with the board added where the policy asks for it
C3_Expected ==
    IF /\ tool_name \in {"monday_create_item", "monday_get_board_groups",
                         "monday_get_board_columns"}
       /\ params_before["boardId"] = Absent
    THEN [params_before EXCEPT !["boardId"] = PyStr(config.board)]
    ELSE params_before
\* C3: the arguments of the tools/call request are the caller's mapping,
\* with boardId set to the configured board only for the three policy tools
\* and only when the caller's mapping had no boardId.
C3_ArgumentsSent ==
    \A i \in ToolRequestsSent :
        wire[i].name = tool_name /\ wire[i].arguments = C3_Expected
C3_Witness ==
    /\ tool_name = "monday_get_board_columns"
    /\ params_before["boardId"] = Absent
    /\ params_before["itemTitle"] = PyStr("X")
    /\ \E i \in ToolRequestsSent :
         wire[i].arguments = [boardId |-> PyStr(ConfiguredBoard), itemTitle |-> PyStr("X")]

\* C4: when the invocation is over, whatever its outcome, the caller's
\* mapping has the keys and values it had when the call was made.
C4_CallerDictUnchanged ==
    pc \in {"await_init", "await_notify", "await_tool", "done"}
        => heap[CallerObject] = params_before
C4_Witness ==
    /\ pc = "done"
    /\ \E i \in ToolRequestsSent :
         /\ wire[i].arguments["boardId"] = PyStr(ConfiguredBoard)
         /\ params_before["boardId"] = Absent
    /\ heap[CallerObject] = params_before

C6_NoPerCallConfigurationFailure ==
    pc = "done" => outcome # Raised("ValueError")

\* C7: only a message whose id is that of the tools/call request (2)
\* determines the outcome: the outcome is the one the same stream gives
\* once the result and error messages with another id are taken out of it.
C7_OnlyMatchingId ==
    Decoded =>
        LET Mine(l) == (IsResultLine(l) \/ IsErrorLine(l))
                          => l.json.value.id = ToolRequestId IN
        outcome = DecodeLines(SelectSeq(StripSplit(tool_response.body), Mine))

\* C8: when the stream holds a result message, the outcome comes from a
\* result message wherever the error messages stand: it is the outcome of
\* the stream without its error messages.
C8_ResultPreferred ==
    LET lines == StripSplit(tool_response.body)
        NotError(l) == ~IsErrorLine(l) IN
    (Decoded /\ \E i \in 1..Len(lines) : IsResultLine(lines[i]))
        => outcome = DecodeLines(SelectSeq(lines, NotError))

\* C9: lines of the response body that do not start with the data prefix,
\* and data lines that are not valid JSON, do not count: the outcome is the
\* outcome of the same body without those lines.
C9_SkippedLinesIrrelevant ==
    Decoded =>
        LET ValidData(l) == StartsWithData(l) /\ l.json.valid IN
        outcome = DecodeToolResponse(SelectSeq(tool_response.body, ValidData))

\* C10: a 2xx body that ends without a data line decoding to a message
\* that carries `result` or `error` gives the parse-failure outcome.
C10_ExhaustedIsParseFailure ==
    LET lines == StripSplit(tool_response.body) IN
    (Decoded /\ \A i \in 1..Len(lines) : ~IsResultLine(lines[i]) /\ ~IsErrorLine(lines[i]))
        => outcome = ParseFailure

\* C11: a tools/call response with a non-2xx status gives the mapping
\* {"error": "MCP server HTTP error: <status>"} and its body is not
\* decoded, whatever it holds.
C11_StatusErrorNotDecoded ==
    (pc = "done" /\ tool_response.ok /\ ~IsSuccess(tool_response.status))
        => /\ outcome.keys = {"error"}
           /\ outcome.error = <<"MCP server HTTP ", "error", ": ", ToString(tool_response.status)>>
           /\ outcome.result = <<>>
C11_Witness ==
    /\ pc = "done"
    /\ tool_response.ok
    /\ tool_response.status = 500
    /\ \E i \in 1..Len(tool_response.body) : IsResultLine(tool_response.body[i])
    /\ outcome = HttpError(500)

\* C12: once the initialize response has been taken, the notification is
\* on the wire if and only if a session token was found; without a token
\* the tools/call request follows the initialize request and has no session
\* header; with a token the notification and the tools/call request carry
\* that token in the header mcp-session-id.
C12_NotificationIffToken ==
    LET Notifications == {i \in 1..Len(wire) : wire[i].method = "notifications/initialized"}
        HandshakeDone == pc \in {"await_notify", "await_tool"} \/ Len(wire) >= 2 IN
    /\ Notifications # {} => Truthy(session_id)
    /\ HandshakeDone =>
        /\ Truthy(session_id) <=> Notifications # {}
        /\ ~Truthy(session_id) =>
              /\ Len(wire) = 2
              /\ wire[2].method = "tools/call"
              /\ wire[2].session = None
        /\ Truthy(session_id) =>
              \A i \in 2..Len(wire) : wire[i].session = session_id
C12_WitnessToken ==
    /\ Len(wire) = 3
    /\ wire[2].method = "notifications/initialized" /\ wire[2].session = TokenB
    /\ wire[3].method = "tools/call" /\ wire[3].session = TokenB
    /\ init_response.headers["session-id"] = TokenB

\* a data line with the server identity: a result message with serverInfo
IsIdentityLine(l) == IsResultLine(l) /\ l.json.value.result.has_server_info
\* the initialize step failed: no response (transport exception), a non-2xx
\* status, or an undecodable data line met before any result message
C19_InitFailed ==
    LET lines == StripSplit(init_response.body) IN
    /\ pc = "done"
    /\ wire # <<>>
    /\ \/ ~init_response.ok
       \/ ~IsSuccess(init_response.status)
       \/ \E i \in 1..Len(lines) :
            /\ StartsWithData(lines[i]) /\ ~lines[i].json.valid
            /\ \A j \in 1..(i - 1) : ~IsResultLine(lines[j])
\* C19: a failure at the initialize step ends the invocation with an error
\* mapping, and nothing but the initialize request was sent: no
\* notification, no tools/call request.
C19_InitFailureIsTerminal ==
    C19_InitFailed
        => /\ outcome.kind = "return"
           /\ outcome.keys = {"error"}
           /\ wire = <<InitRequest>>
C19_Witness ==
    /\ pc = "done"
    /\ init_response.ok /\ IsSuccess(init_response.status)
    /\ init_response.body = <<InitErrorLine, InvalidDataLine>>
    /\ Truthy(session_id)
    /\ wire = <<InitRequest>>
    /\ outcome = UnexpectedError("JSONDecodeError")

\* C20: the tools/call request is sent only when a result message with the
\* server identity was decoded from the initialize response.
C20_ToolCallOnlyAfterIdentity ==
    LET lines == StripSplit(init_response.body) IN
    ToolRequestsSent # {} => \E i \in 1..Len(lines) : IsIdentityLine(lines[i])

(***************************************************************************)
(* execute_mcp_tool as steps on an invocation value, for the callers that  *)
(* run more than one invocation: the same code as Call, RecvInit,          *)
(* RecvNotify and RecvTool, one await at a time.                           *)
(***************************************************************************)
\* lines 31-36: the mapping that is sent for the caller's mapping A
Enforced(t, A, board) ==
    Enforce([NoHeap EXCEPT ![CallerObject] = A], t, board)[NewDict(CallerObject)]

Finished(c, o) == [c EXCEPT !.pc = "done", !.outcome = o]
Posted(c, r, at) == [c EXCEPT !.wire = Append(@, r), !.pc = at]

\* lines 25-73, up to the first await
Started(t, A, cfg) ==
    LET c == [NoInvocation EXCEPT !.tool_name = t, !.parameters = A] IN
    IF ~Truthy(cfg.board) \/ ~Truthy(cfg.url)
    THEN Finished(c, Raised("ValueError"))
    ELSE Posted([c EXCEPT !.arguments = Enforced(t, A, cfg.board)],
                InitRequest, "await_init")

\* lines 74-153 (or a handler of 210-215) on the initialize response
AfterInit(c, resp) ==
    LET got == [c EXCEPT !.init_response = resp] IN
    IF ~resp.ok THEN Finished(got, UnexpectedError("ConnectError"))
    ELSE IF ~IsSuccess(resp.status) THEN Finished(got, HttpError(resp.status))
    ELSE LET sid == ExtractSessionId(resp.headers)
             parsed == ParseInit(resp.body)
             found == [got EXCEPT !.session_id = sid] IN
         IF parsed # "ok" THEN Finished(found, UnexpectedError(parsed))
         ELSE IF Truthy(sid) THEN Posted(found, NotifyRequest(sid), "await_notify")
         ELSE Posted(found, ToolRequest(c.tool_name, c.arguments, sid), "await_tool")

\* lines 111-153 on the completion of the notification's POST; sid is what
\* the local session_id holds by then
AfterNotify(c, sid, resp) ==
    LET got == [c EXCEPT !.notify_response = resp] IN
    IF ~resp.ok THEN Finished(got, UnexpectedError("ConnectError"))
    ELSE Posted(got, ToolRequest(c.tool_name, c.arguments, sid), "await_tool")

\* lines 154-215 on the tools/call response
AfterTool(c, resp) ==
    Finished([c EXCEPT !.tool_response = resp], HandleToolResponse(resp))

\* asyncio cancels the task at the await it is suspended in: CancelledError
\* is no Exception, so no handler of lines 210-215 takes it, and the client
\* of line 40 is closed on the way out
Cancelled(c) == [c EXCEPT !.pc = "cancelled"]

Suspended(c) == c.pc \in {"await_init", "await_notify", "await_tool"}
ToolCallsOf(c) == {i \in 1..Len(c.wire) : c.wire[i].method = "tools/call"}

(***************************************************************************)
(* The tool functions of the agents: what they make of an outcome of       *)
(* execute_mcp_tool.  A sentence is a token sequence; spawn names the      *)
(* coroutine handed to asyncio.create_task, if any.                        *)
(***************************************************************************)
\* str.lower() on the tokens whose case bears on a search for a lower-case
\* word (a searched word is a token of its own, in the case the text has)
LowerToken(t) == IF t \in {"Error", "ERROR"} THEN "error" ELSE t
Lower(s) == [i \in 1..Len(s) |-> LowerToken(s[i])]
\* s.count(word)
Count(s, word) == Cardinality({i \in 1..Len(s) : s[i] = word})

\* str(result) of a returned list or mapping: the keys with their texts
RECURSIVE ReprItems(_, _)
ReprItems(o, keys) ==
    IF keys = {} THEN <<>>
    ELSE LET k == CHOOSE x \in keys : TRUE
             v == CASE k = "result" -> o.result
                    [] k = "error" -> o.error
                    [] OTHER -> <<"...">> IN
         <<"'", k, "': '">> \o v \o <<"', ">> \o ReprItems(o, keys \ {k})
Repr(o) == IF o.ty = "list" THEN <<"[...]">>
           ELSE <<"{">> \o ReprItems(o, o.keys) \o <<"}">>

\* key in result: on a mapping its keys, on a list its elements
HasResultKey(o, k) == o.ty = "dict" /\ k \in o.keys

Reply(text, spawn) == [text |-> text, spawn |-> spawn]
NoSpawn == "none"

\* working_agent.py lines 36-46; a mapping that execute_mcp_tool returns
\* has no key structuredContent or content unless the server's own JSON
\* text had it, and then the nested text is the server's
ServerNestedText == <<"nested text of the server's JSON">>
ExtractResultText(o) ==
    IF HasResultKey(o, "structuredContent") \/ HasResultKey(o, "content")
    THEN ServerNestedText
    ELSE IF HasResultKey(o, "result") THEN o.result
    ELSE Repr(o)

\* the sentences of working_agent.py lines 51, 53 and 55
WorkingIssue(n) ==
    <<"I encountered an issue creating task '", n, "', Sir. The Monday.com integration needs adjustment.">>
WorkingConflict(n) ==
    <<"Task '", n, "' has a parameter conflict, Sir. The board structure may need updating, but I've noted the request.">>
WorkingSuccess(n) ==
    <<"Perfect! Task '", n, "' has been successfully created in your Paid Media CRM board, Sir!">>

\* working_agent.py lines 50-59, with the tests in the order of the code; the
\* texts of the model are shorter than the 100 characters of the slice
ClassifyResultText(result_text, n) ==
    IF Contains(Lower(result_text), "error") THEN WorkingIssue(n)
    ELSE IF Contains(result_text, "You can set either") THEN WorkingConflict(n)
    ELSE IF Contains(Lower(result_text), "successfully")
            \/ Contains(Lower(result_text), "created")
    THEN WorkingSuccess(n)
    ELSE IF result_text # <<>>
    THEN <<"Task '", n, "' has been processed in your Monday.com workspace, Sir. Status: ">>
         \o result_text \o <<"...">>
    ELSE <<"Task '", n, "' has been created in your Monday.com board, Sir. All sorted!">>

\* working_agent.py lines 23-63
working_agent_create_monday_task_real(o, n) ==
    IF o.kind = "raise"
    THEN Reply(<<"I'll make sure task '", n, "' gets created in your Monday.com workspace, Sir.">>, NoSpawn)
    ELSE Reply(ClassifyResultText(ExtractResultText(o), n), NoSpawn)

\* the board names the listing functions look for, and ", ".join
BoardNames == <<"September Content Board", "AOP Pizza Hut", "Beauty Fair", "AOP MR DIY">>
RECURSIVE Join(_)
Join(names) ==
    IF Len(names) = 0 THEN <<>>
    ELSE IF Len(names) = 1 THEN names
    ELSE <<names[1], ", ">> \o Join(Tail(names))
FirstThree(names) == SubSeq(names, 1, IF Len(names) < 3 THEN Len(names) ELSE 3)

\* working_agent.py lines 76-84: boards_text, None (here the empty text)
\* when no branch applies
ExtractBoardsText(o) ==
    IF HasResultKey(o, "structuredContent") \/ HasResultKey(o, "content")
    THEN ServerNestedText
    ELSE IF HasResultKey(o, "result") THEN o.result
    ELSE <<>>

\* working_agent.py lines 70-113
working_agent_list_monday_boards_real(o) ==
    IF o.kind = "raise"
    THEN Reply(<<"I can see your Monday.com workspace, Sir. Your main board is the Paid Media CRM with multiple active projects.">>, NoSpawn)
    ELSE LET boards_text == ExtractBoardsText(o)
             boards == SelectSeq(BoardNames, LAMBDA b : Contains(boards_text, b)) IN
         IF boards_text # <<>> /\ Contains(boards_text, "Paid Media CRM")
         THEN Reply(<<"I can see your Monday.com workspace, Sir. You have ",
                      ToString(Count(boards_text, "ID:")),
                      " boards including the main Paid Media CRM board (ID: 2034046752), ">>
                    \o Join(FirstThree(boards))
                    \o <<", and others. All are active and accessible.">>, NoSpawn)
         ELSE IF boards_text # <<>>
         THEN Reply(<<"I can see your Monday.com workspace with multiple active boards, Sir. The system shows: ">>
                    \o boards_text \o <<"...">>, NoSpawn)
         ELSE Reply(<<"Your Monday.com workspace is connected and operational, Sir. I can access all your boards including the Paid Media CRM.">>, NoSpawn)

\* perfect_agent.py lines 39-47 and 54-56: the primary call completed
perfect_agent_create_monday_task_real(o, n) ==
    IF o.kind = "raise"
    THEN Reply(<<"I'll create task '", n, "' in your Monday.com workspace, Sir.">>, NoSpawn)
    ELSE IF ~Contains(Repr(o), "error") /\ ~Contains(Repr(o), "You can set either")
    THEN Reply(<<"Perfect! Task '", n, "' has been created in your Paid Media CRM board, Sir!">>, NoSpawn)
    ELSE Reply(<<"Creating task '", n, "' in your Monday.com board, Sir. Let me check the status...">>,
               "task_follow_up")

\* perfect_agent.py lines 70-80 and 87-89
perfect_agent_list_monday_boards_real(o) ==
    IF o.kind = "raise"
    THEN Reply(<<"I can see your Monday.com workspace with several active boards, Sir.">>, NoSpawn)
    ELSE IF HasResultKey(o, "result") /\ Contains(Repr(o), "Paid Media CRM")
    THEN Reply(<<"I can see your Monday.com workspace, Sir. You have ",
                 ToString(Count(o.result, "ID:")),
                 " boards including the Paid Media CRM, September Content, AOP Pizza Hut, and Beauty Fair boards.">>,
               NoSpawn)
    ELSE Reply(<<"Checking your Monday.com workspace, Sir. I can see multiple active boards...">>,
               "boards_follow_up")

\* mvp_agent.py lines 37-44 and 52-56
mvp_agent_create_monday_task_real(o, n) ==
    IF o.kind = "raise"
    THEN Reply(<<"Creating task '", n, "' in your Monday.com workspace, Sir!">>,
               "create_task_background")
    ELSE IF ~HasResultKey(o, "error") /\ ~Contains(Repr(o), "You can set either")
    THEN Reply(<<"Perfect! Task '", n, "' has been created in your Paid Media CRM board, Sir!">>, NoSpawn)
    ELSE Reply(<<"Task '", n, "' is being created in your Monday.com board, Sir!">>, NoSpawn)

\* mvp_agent.py lines 91-102 and 110-114
mvp_agent_list_monday_boards_real(o) ==
    IF o.kind = "raise"
    THEN Reply(<<"I can see your Monday.com workspace, Sir. Your main board is the Paid Media CRM.">>,
               "list_boards_background")
    ELSE IF HasResultKey(o, "result") /\ Contains(Repr(o), "Paid Media CRM")
    THEN IF Contains(o.result, "September Content Board") /\ Contains(o.result, "AOP Pizza Hut")
         THEN Reply(<<"I can see your Monday.com workspace, Sir. You have the Paid Media CRM board (ID: 2034046752), September Content Board, AOP Pizza Hut, AOP MR DIY, and Beauty Fair boards.">>, NoSpawn)
         ELSE Reply(<<"I can see your Monday.com workspace with the Paid Media CRM board and several other active projects, Sir.">>, NoSpawn)
    ELSE Reply(<<"I can see your Monday.com workspace, Sir. Your main board is the Paid Media CRM with multiple active projects.">>, NoSpawn)

\* the handlers of asyncio.TimeoutError (perfect_agent.py lines 49-52 and
\* 82-85, mvp_agent.py lines 46-50 and 104-108): the text they return
Placeholder(req) ==
    CASE req.module = "perfect_agent" /\ req.fn = "create_monday_task_real" ->
            <<"Creating task '", req.task_name, "' in your Monday.com board, Sir. Processing now...">>
      [] req.module = "perfect_agent" /\ req.fn = "list_monday_boards_real" ->
            <<"I can see your Monday.com workspace, Sir. Let me get the exact board details...">>
      [] req.module = "mvp_agent" /\ req.fn = "create_monday_task_real" ->
            <<"Task '", req.task_name, "' is being created in your Monday.com board, Sir!">>
      [] req.module = "mvp_agent" /\ req.fn = "list_monday_boards_real" ->
            <<"I can see your Monday.com workspace, Sir. Your main board is the Paid Media CRM with multiple projects including September Content and AOP campaigns.">>
\* and the coroutine they hand to asyncio.create_task
BackgroundCompletion(req) ==
    CASE req.module = "perfect_agent" /\ req.fn = "create_monday_task_real" -> "task_follow_up"
      [] req.module = "perfect_agent" /\ req.fn = "list_monday_boards_real" -> "boards_follow_up"
      [] req.module = "mvp_agent" /\ req.fn = "create_monday_task_real" -> "create_task_background"
      [] req.module = "mvp_agent" /\ req.fn = "list_monday_boards_real" -> "list_boards_background"
TimeoutHandler_nospawn(req) == Reply(Placeholder(req), NoSpawn)
TimeoutHandler(req) == Reply(Placeholder(req), BackgroundCompletion(req))

\* the function awaits execute_mcp_tool inside asyncio.wait_for
Guarded(req) == req.module \in {"perfect_agent", "mvp_agent"}

\* the mapping as the function leaves it: the functions test membership
\* (`in`), index, call .get() and str() (working_agent.py lines 36-46,
\* perfect_agent.py line 42, mvp_agent.py line 40), none of which writes
Inspected_popped(o) ==
    IF o.kind = "return" THEN [o EXCEPT !.keys = {}, !.result = <<>>, !.error = <<>>] ELSE o
Inspected(o) == o

\* what the function returns once the call it awaits has completed
OnCompletion(req, o) ==
    CASE req.module = "working_agent" /\ req.fn = "create_monday_task_real" ->
            working_agent_create_monday_task_real(o, req.task_name)
      [] req.module = "working_agent" /\ req.fn = "list_monday_boards_real" ->
            working_agent_list_monday_boards_real(o)
      [] req.module = "perfect_agent" /\ req.fn = "create_monday_task_real" ->
            perfect_agent_create_monday_task_real(o, req.task_name)
      [] req.module = "perfect_agent" /\ req.fn = "list_monday_boards_real" ->
            perfect_agent_list_monday_boards_real(o)
      [] req.module = "mvp_agent" /\ req.fn = "create_monday_task_real" ->
            mvp_agent_create_monday_task_real(o, req.task_name)
      [] req.module = "mvp_agent" /\ req.fn = "list_monday_boards_real" ->
            mvp_agent_list_monday_boards_real(o)

\* final_mvp_agent.py lines 19-39: the functions await nothing; they hand
\* the call to a background task and return a fixed text
NonBlocking(req) == req.module = "final_mvp_agent"
final_mvp_agent(req) ==
    IF req.fn = "create_monday_task_real"
    THEN Reply(<<"Creating task '", req.task_name, "' in your Paid Media CRM board, Sir. This will be processed right away!">>,
               "final_mvp_agent.create_task_background")
    ELSE Reply(<<"I can see your Monday.com workspace, Sir. You have the Paid Media CRM board (ID: 2034046752), September Content Board, AOP Pizza Hut, AOP MR DIY, and Beauty Fair boards active.">>,
               "final_mvp_agent.list_boards_background")

\* the level of the line a background task logs about its outcome:
\* mvp_agent.py lines 71-77 and 124-130, final_mvp_agent.py lines 56-64 and
\* 75-84; the follow-ups of perfect_agent.py log at one level (lines 106,
\* 133) or, of an exception, at error (lines 121-122, 151-152)
BackgroundLog(coroutine, o) ==
    IF o.kind = "raise" THEN "error"
    ELSE IF coroutine \in {"task_follow_up", "boards_follow_up"} THEN "info"
    ELSE IF HasResultKey(o, "error") THEN "error"
    ELSE IF coroutine = "final_mvp_agent.create_task_background"
            /\ Contains(Repr(o), "You can set either")
    THEN "warning"
    ELSE "info"

\* the tool name and the mapping the functions pass to execute_mcp_tool
\* (groupId, limit and page are keys the enforcement does not look at)
ToolOf(req) == IF req.fn = "create_monday_task_real" THEN "monday_create_item"
               ELSE "monday_list_boards"
ArgumentsOf(req) ==
    IF req.fn = "create_monday_task_real"
    THEN [boardId |-> PyStr(AgentBoard), itemTitle |-> PyStr(req.task_name)]
    ELSE EmptyDict

\* perfect_agent.py lines 108-114: the text of task_follow_up
task_follow_up(o, n) ==
    IF ~Contains(Repr(o), "error") /\ ~Contains(Repr(o), "You can set either")
    THEN <<"Task '", n, "' has been successfully created in your Paid Media CRM board, Sir!">>
    ELSE IF Contains(Repr(o), "You can set either")
    THEN <<"Task '", n, "' creation encountered a parameter conflict, Sir. The board structure may need adjustment.">>
    ELSE <<"Task '", n, "' creation is being processed in your Monday.com workspace, Sir.">>

\* perfect_agent.py lines 135-144: the text of boards_follow_up
boards_follow_up(o) ==
    IF HasResultKey(o, "result")
    THEN IF Contains(o.result, "Paid Media CRM")
         THEN <<"I found ", ToString(Count(o.result, "ID:")),
                " boards in your workspace, Sir. Your main boards include Paid Media CRM (ID: 2034046752), September Content Board, AOP Pizza Hut, and Beauty Fair boards.">>
         ELSE <<"I can see your Monday.com boards are all active and accessible, Sir.">>
    ELSE <<"Your Monday.com workspace is connected and all boards are accessible, Sir.">>

\* the coroutines that speak on the side channel; the others only log
Speaks_all(coroutine) == TRUE
Speaks(coroutine) == coroutine \in {"task_follow_up", "boards_follow_up"}
FollowUpText(coroutine, o, n) ==
    IF coroutine = "task_follow_up" THEN task_follow_up(o, n) ELSE boards_follow_up(o)

(***************************************************************************)
(* One request to a tool function of an agent.                             *)
(***************************************************************************)
Modules == {"working_agent", "perfect_agent", "mvp_agent", "final_mvp_agent"}
Functions == {"create_monday_task_real", "list_monday_boards_real"}
TaskNames == {"Q3 report"}

\* what the server answers to the calls of the agents
BoardsText == <<"ID:", " 2034046752 ", "Paid Media CRM", "; ", "ID:", " 7 ",
                "September Content Board">>
ArchivedText == <<"The board is archived">>
NotFoundText == <<"Error", ": the board was not found">>
AgentInitResponses ==
    { NoResponse,
      Response(200, NoHeaders, <<InitResultLine>>),
      Response(200, [NoHeaders EXCEPT !["mcp-session-id"] = TokenA], <<InitResultLine>>) }
AgentToolResponses ==
    {NoResponse, Response(500, NoHeaders, <<BlankLine>>)}
    \cup { Response(200, NoHeaders, <<DataLine(ValidJson(m))>>) : m \in
            { TextMessage(ToolRequestId, CreatedText),
              TextMessage(ToolRequestId, ConflictText),
              FailureMessage(ToolRequestId, ConflictText),
              FailureMessage(ToolRequestId, ArchivedText),
              TextMessage(ToolRequestId, ArchivedText),
              TextMessage(ToolRequestId, NotFoundText),
              TextMessage(ToolRequestId, BoardsText),
              TextMessage(ToolRequestId, <<>>),
              ResultMessage(ToolRequestId, TextResult(JsonObjectText({"items"}))) } }

\* the responses an invocation may receive where it is suspended, and the
\* invocation after one of them
Replies(c) ==
    CASE c.pc = "await_init" -> AgentInitResponses
      [] c.pc = "await_notify" -> NotifyResponses
      [] c.pc = "await_tool" -> AgentToolResponses
Advance(c, resp) ==
    CASE c.pc = "await_init" -> AfterInit(c, resp)
      [] c.pc = "await_notify" -> AfterNotify(c, c.session_id, resp)
      [] c.pc = "await_tool" -> AfterTool(c, resp)

\* a task that does not outlive the function that made it
NewTask_dropped(coroutine) ==
    [coroutine |-> coroutine, at |-> "cancelled", call |-> NoInvocation,
     say |-> "not reached", session |-> None, log |-> ""]
\* a task made with asyncio.create_task(coroutine(...))
\* session: what the task found in current_session; log: the level of the
\* line the task logged about its outcome
NewTask(coroutine) ==
    [coroutine |-> coroutine, at |-> "scheduled", call |-> NoInvocation,
     say |-> "not reached", session |-> None, log |-> ""]
Spawned(tasks, reply) ==
    IF reply.spawn = NoSpawn THEN tasks ELSE Append(tasks, NewTask(reply.spawn))

\* perfect_agent.py lines 186-198: the entrypoint of a job stores its session
\* in the module global; a second job in the same process stores its own
Sessions == <<"session-1", "session-2">>
Entrypoint ==
    /\ pc = "idle"
    /\ \E i \in 1..Len(Sessions) :
        /\ current_session = IF i = 1 THEN None ELSE Sessions[i - 1]
        /\ current_session' = Sessions[i]
    /\ UNCHANGED <<config, pc, callVars, agent_pc, request, primary, background,
                   returned, said, pairVars>>

\* the voice runtime calls a tool function, which runs up to the first
\* await of execute_mcp_tool
ToolCall ==
    /\ pc = "idle"
    /\ agent_pc = "idle"
    /\ \E m \in Modules, f \in Functions, n \in TaskNames :
        LET req == [module |-> m, fn |-> f, task_name |-> n,
                    session |-> current_session] IN
        /\ request' = req
        /\ IF NonBlocking(req)
           THEN /\ primary' = primary
                /\ returned' = Append(returned, final_mvp_agent(req).text)
                /\ background' = Spawned(background, final_mvp_agent(req))
                /\ agent_pc' = "returned"
           ELSE /\ primary' = Started(ToolOf(req), ArgumentsOf(req), config)
                /\ agent_pc' = "waiting"
                /\ UNCHANGED <<background, returned>>
    /\ UNCHANGED <<config, pc, callVars, said, current_session, pairVars>>

\* a response arrives for the invocation the function awaits
PrimaryReply ==
    /\ agent_pc = "waiting"
    /\ Suspended(primary)
    /\ \E resp \in Replies(primary) :
        primary' = Advance(primary, resp)
    /\ UNCHANGED <<config, pc, callVars, agent_pc, request, background, returned,
                   said, current_session, pairVars>>

\* execute_mcp_tool has returned or raised before the deadline: the rest of
\* the try block or the handler of Exception
Complete ==
    /\ agent_pc = "waiting"
    /\ primary.pc = "done"
    /\ LET reply == OnCompletion(request, primary.outcome) IN
        /\ returned' = Append(returned, reply.text)
        /\ background' = Spawned(background, reply)
    /\ primary' = [primary EXCEPT !.outcome = Inspected(@)]
    /\ agent_pc' = "returned"
    /\ UNCHANGED <<config, pc, callVars, request, said, current_session, pairVars>>

\* the timeout of asyncio.wait_for elapses first: wait_for cancels the
\* awaited invocation and raises TimeoutError into the function
Deadline ==
    /\ agent_pc = "waiting"
    /\ Guarded(request)
    /\ Suspended(primary)
    /\ primary' = Cancelled(primary)
    /\ LET reply == TimeoutHandler(request) IN
        /\ returned' = Append(returned, reply.text)
        /\ background' = Spawned(background, reply)
    /\ agent_pc' = "timed_out"
    /\ UNCHANGED <<config, pc, callVars, request, said, current_session, pairVars>>

\* a background task gets to run: after its sleep(1) if it has one, it calls
\* execute_mcp_tool again (perfect_agent.py lines 95-104 and 127-131,
\* mvp_agent.py lines 61-67 and 119-120)
BackgroundStart ==
    /\ \E k \in 1..Len(background) :
        /\ background[k].at = "scheduled"
        /\ background' = [background EXCEPT ![k].at = "call",
                                            ![k].call =
                Started(ToolOf(request), ArgumentsOf(request), config)]
    /\ UNCHANGED <<config, pc, callVars, agent_pc, request, primary, returned,
                   said, current_session, pairVars>>

\* a response arrives for the invocation of a background task
BackgroundReply ==
    /\ \E k \in 1..Len(background) :
        /\ background[k].at = "call"
        /\ Suspended(background[k].call)
        /\ \E resp \in Replies(background[k].call) :
            background' = [background EXCEPT ![k].call = Advance(@, resp)]
    /\ UNCHANGED <<config, pc, callVars, agent_pc, request, primary, returned,
                   said, current_session, pairVars>>

\* the rest of a background task once its invocation has completed: the
\* follow-ups of perfect_agent.py say their text if current_session is set
\* (lines 108-122 and 135-152), and say may raise; the background tasks of
\* mvp_agent.py only log (lines 69-77 and 122-130)
BackgroundFinish ==
    /\ \E k \in 1..Len(background) :
        LET task == background[k]
            o == task.call.outcome
            done(how, seen) ==
                [background EXCEPT ![k].at = "done", ![k].say = how,
                                   ![k].session = seen,
                                   ![k].log = BackgroundLog(task.coroutine, o)] IN
        /\ task.at = "call"
        /\ task.call.pc = "done"
        /\ IF ~Speaks(task.coroutine) \/ o.kind = "raise"
           THEN /\ background' = done("not reached", None)
                /\ said' = said
           ELSE IF ~Truthy(current_session)
           THEN /\ background' = done("no session", current_session)
                /\ said' = said
           ELSE \/ /\ background' = done("spoken", current_session)
                   /\ said' = Append(said, FollowUpText(task.coroutine, o, request.task_name))
                \/ /\ background' = done("raised", current_session)
                   /\ said' = said
    /\ UNCHANGED <<config, pc, callVars, agent_pc, request, primary, returned,
                   current_session, pairVars>>

AgentNext ==
    \/ Startup \/ Entrypoint \/ ToolCall \/ PrimaryReply \/ Complete \/ Deadline
    \/ BackgroundStart \/ BackgroundReply \/ BackgroundFinish

AgentSpec == Init /\ [][AgentNext]_vars

(***************************************************************************)
(* Properties of the tool functions.                                       *)
(***************************************************************************)
\* the function named has returned after its call completed
Completed(m, f) ==
    /\ request.module = m
    /\ request.fn = f
    /\ agent_pc = "returned"
    /\ primary.outcome.kind = "return"

\* C13: in create_monday_task_real of working_agent.py an outcome whose
\* extracted text has the marker "You can set either" is reported as a
\* parameter conflict, also when the text has "Error" in it, and the
\* extracted text "Item created successfully" is reported as success.
C13_MarkerIsConflict ==
    Completed("working_agent", "create_monday_task_real") =>
        LET result_text == ExtractResultText(primary.outcome) IN
        /\ Contains(result_text, "You can set either")
              => returned = <<WorkingConflict(request.task_name)>>
        /\ result_text = CreatedText
              => returned = <<WorkingSuccess(request.task_name)>>

\* C14: when the soft deadline elapses before execute_mcp_tool completes, a
\* deadline-guarded tool function (create_monday_task_real and
\* list_monday_boards_real of perfect_agent.py and mvp_agent.py) returns its
\* placeholder text, without the outcome of the call, and has scheduled
\* exactly one background completion for the request.
C14_TimeoutSchedulesOne ==
    agent_pc = "timed_out" =>
        /\ Guarded(request)
        /\ primary.outcome = NoOutcome
        /\ returned = <<Placeholder(request)>>
        /\ Len(background) = 1
        /\ background[1].coroutine = BackgroundCompletion(request)
C14_Witness ==
    /\ agent_pc = "timed_out"
    /\ request.module = "mvp_agent"
    /\ request.fn = "list_monday_boards_real"
    /\ primary.pc = "cancelled"
    /\ ToolCallsOf(primary) # {}
    /\ Len(background) = 1
    /\ background[1].at = "scheduled"

\* C15: the soft deadline never cancels the underlying network operation:
\* after the deadline of the guarded call has expired, the invocation of
\* execute_mcp_tool that was started is still suspended in its handshake or
\* tools/call, or has completed.
C15_DeadlineNeverCancels ==
    agent_pc = "timed_out" => (Suspended(primary) \/ primary.pc = "done")

\* the background tasks of the request have all run to their end
BackgroundDone ==
    background # <<>> /\ \A k \in 1..Len(background) : background[k].at = "done"

\* C16: for a guarded request whose synchronous path timed out, the outcome
\* of the background completion is delivered on the side channel exactly
\* once and never as the synchronous return value, and the synchronous path
\* delivers exactly one string, also when current_session is unset or the
\* background call fails.
C16_DeliveredExactlyOnce ==
    (agent_pc = "timed_out" /\ request.module = "perfect_agent") =>
        /\ returned = <<Placeholder(request)>>
        /\ Len(said) <= 1
        /\ BackgroundDone => Len(said) = 1

\* C16 as the code has it: the outcome of the background completion is
\* delivered on the side channel at most once, and exactly once when
\* current_session is set, the background call returns and say does not
\* raise; it is never the synchronous return value, the synchronous path
\* delivers exactly one string, and the background tasks of mvp_agent.py
\* deliver nothing.
C16_DeliveredAtMostOnce ==
    agent_pc = "timed_out" =>
        /\ returned = <<Placeholder(request)>>
        /\ Len(background) = 1
        /\ LET task == background[1]
               delivered == /\ task.at = "done"
                            /\ request.module = "perfect_agent"
                            /\ Truthy(task.session)
                            /\ task.call.outcome.kind = "return"
                            /\ task.say # "raised" IN
           IF delivered
           THEN said = <<FollowUpText(task.coroutine, task.call.outcome,
                                      request.task_name)>>
           ELSE said = <<>>
C16_Witness ==
    /\ agent_pc = "timed_out"
    /\ request.module = "perfect_agent"
    /\ request.fn = "create_monday_task_real"
    /\ BackgroundDone
    /\ background[1].call.outcome = ResultOutcome(CreatedText)
    /\ Len(said) = 1
    /\ returned # said

\* the words of a server's reply: the text of its result content and the
\* message of its error
Words(text) == {text[i] : i \in 1..Len(text)}
MessageWords(v) ==
    IF v.ty # "object" THEN {}
    ELSE Words(v.error.message.s)
         \cup (IF v.result.has_content /\ Len(v.result.content) > 0
                  /\ v.result.content[1].has_text
               THEN Words(v.result.content[1].text.s)
               ELSE {})
ServerWords(resp) ==
    UNION {MessageWords(resp.body[i].json.value) : i \in 1..Len(resp.body)}
\* the words the agents write themselves when they name boards
CodeWords == Words(BoardNames)

\* C18: no raw protocol detail is surfaced to the end user: no string that
\* a tool function returns to the voice runtime, and no follow-up text said
\* on the side channel, contains text taken from the payload or the error
\* message of a server response.
C18_NoServerText ==
    LET server == ServerWords(primary.tool_response)
                  \cup UNION {ServerWords(background[k].call.tool_response) :
                                k \in 1..Len(background)} IN
    \A text \in Words(returned) \cup Words(said) :
        \A w \in Words(text) : w \in server => w \in CodeWords

(***************************************************************************)
(* Two invocations of execute_mcp_tool in one event loop: they interleave  *)
(* at their awaits.  Each has its own client (line 40) and its own local   *)
(* session_id (line 82); the module globals are only read.                 *)
(***************************************************************************)
\* where invocation i keeps its session_id: a local of that invocation
SessionSlot_shared(i) == 1
SessionSlot(i) == i

PairTools == {"monday_create_item", "monday_list_boards"}
PairDicts == {EmptyDict, [EmptyDict EXCEPT !.boardId = PyStr(AgentBoard)]}
PairInitResponses ==
    {NoResponse} \cup {Response(200, h, <<InitResultLine>>) : h \in HeaderSets}
PairToolResponses ==
    { NoResponse,
      Response(200, NoHeaders,
               <<DataLine(ValidJson(TextMessage(ToolRequestId, CreatedText)))>>),
      Response(200, NoHeaders,
               <<DataLine(ValidJson(FailureMessage(ToolRequestId, ConflictText)))>>) }
PairReplies(c) ==
    CASE c.pc = "await_init" -> PairInitResponses
      [] c.pc = "await_notify" -> NotifyResponses
      [] c.pc = "await_tool" -> PairToolResponses

\* invocation i starts and runs to its first await; line 82 sets its
\* session_id to None on the way
PairCall ==
    /\ pc = "idle"
    /\ \E i \in {1, 2}, t \in PairTools, A \in PairDicts :
        /\ calls[i].pc = "none"
        /\ calls' = [calls EXCEPT ![i] = Started(t, A, config)]
        /\ slots' = [slots EXCEPT ![SessionSlot(i)] = None]
    /\ UNCHANGED <<config, pc, callVars, agentVars>>

\* a response arrives for invocation i, which runs to its next await or to
\* its end
PairReply ==
    /\ \E i \in {1, 2} :
        LET c == calls[i] IN
        /\ Suspended(c)
        /\ \E resp \in PairReplies(c) :
            LET next == CASE c.pc = "await_init" -> AfterInit(c, resp)
                          [] c.pc = "await_notify" ->
                                AfterNotify(c, slots[SessionSlot(i)], resp)
                          [] c.pc = "await_tool" -> AfterTool(c, resp) IN
            /\ calls' = [calls EXCEPT ![i] = next]
            /\ slots' = IF c.pc = "await_init" /\ resp.ok /\ IsSuccess(resp.status)
                        THEN [slots EXCEPT ![SessionSlot(i)] = next.session_id]
                        ELSE slots
    /\ UNCHANGED <<config, pc, callVars, agentVars>>

PairNext == Startup \/ PairCall \/ PairReply

PairSpec == Init /\ [][PairNext]_vars

\* the invocation c run alone against the responses c received
Alone(c) ==
    LET s0 == Started(c.tool_name, c.parameters, config)
        s1 == IF s0.pc = "await_init" THEN AfterInit(s0, c.init_response) ELSE s0
        s2 == IF s1.pc = "await_notify"
              THEN AfterNotify(s1, s1.session_id, c.notify_response) ELSE s1
        s3 == IF s2.pc = "await_tool" THEN AfterTool(s2, c.tool_response) ELSE s2
    IN s3

\* C17: concurrent invocations of execute_mcp_tool are independent: under
\* every interleaving of two invocations, the session token on an
\* invocation's notification and tools/call requests is the one extracted
\* from its own initialize response (or none), and a completed invocation
\* posted the requests and has the outcome it has when run alone against
\* the same server responses.
C17_Independent ==
    \A i \in {1, 2} :
        LET c == calls[i]
            own == ExtractSessionId(c.init_response.headers) IN
        /\ \A k \in 1..Len(c.wire) :
              c.wire[k].method # "initialize"
                  => (c.wire[k].session = own \/ ~Truthy(c.wire[k].session))
        /\ c.pc = "done" => (c.outcome = Alone(c).outcome /\ c.wire = Alone(c).wire)
C17_Witness ==
    /\ calls[1].pc = "done" /\ calls[2].pc = "done"
    /\ Len(calls[1].wire) = 3 /\ Len(calls[2].wire) = 3
    /\ calls[1].wire[3].session = TokenA
    /\ calls[2].wire[3].session = TokenB
    /\ calls[1].outcome = ResultOutcome(CreatedText)
    /\ calls[2].outcome = ErrorOutcome(ConflictText)

(***************************************************************************)
(* Further properties of one invocation.                                   *)
(***************************************************************************)
\* the requests of one kind on the wire
Sent(method) == {i \in 1..Len(wire) : wire[i].method = method}
\* the invocation is suspended in the await of a POST
Awaiting == pc \in {"await_init", "await_notify", "await_tool"}

\* C21: within one invocation the requests are serialized: the initialize
\* request is the first and the only one of its kind, the notification
\* comes second and only after the initialize response was received, the
\* tools/call request is sent at most once, last, after the responses to
\* the requests before it, and the only request that can be outstanding is
\* the last one on the wire.
C21_Serialized ==
    /\ wire # <<>> => (wire[1] = InitRequest /\ Sent("initialize") = {1})
    /\ Sent("notifications/initialized") \subseteq {2}
    /\ Len(wire) >= 2 => (init_response.ok /\ IsSuccess(init_response.status))
    /\ Cardinality(Sent("tools/call")) <= 1
    /\ \A i \in Sent("tools/call") : i = Len(wire) /\ pc \in {"await_tool", "done"}
    /\ pc = "await_init" => Len(wire) = 1
    /\ pc = "await_notify" => (Len(wire) = 2 /\ Sent("notifications/initialized") = {2})
    /\ pc = "await_tool" => Sent("tools/call") = {Len(wire)}
    /\ ~Awaiting => (pc = "done" \/ wire = <<>>)
C21_Witness ==
    /\ pc = "done"
    /\ Len(wire) = 3
    /\ Sent("notifications/initialized") = {2}
    /\ Sent("tools/call") = {3}
    /\ outcome = ResultOutcome(CreatedText)

\* C22: the session token is the value of the first of the headers
\* mcp-session-id, x-session-id, session-id, in this order, that has a
\* non-empty value; a candidate that is present but empty does not stop the
\* scan; when none has a value the token is absent and the call goes on to
\* its tools/call request without an error.
C22_FirstNonEmptyHeader ==
    (init_response.ok /\ IsSuccess(init_response.status)) =>
        LET h == init_response.headers IN
        /\ session_id = IF Truthy(h["mcp-session-id"]) THEN h["mcp-session-id"]
                        ELSE IF Truthy(h["x-session-id"]) THEN h["x-session-id"]
                        ELSE IF Truthy(h["session-id"]) THEN h["session-id"]
                        ELSE None
        /\ (~Truthy(session_id) /\ ParseInit(init_response.body) = "ok")
              => (Len(wire) = 2 /\ Sent("tools/call") = {2})
C22_Witness ==
    /\ init_response.ok
    /\ init_response.headers["mcp-session-id"] = ""
    /\ init_response.headers["x-session-id"] = None
    /\ init_response.headers["session-id"] = TokenB
    /\ session_id = TokenB
    /\ pc = "await_notify"
C22_WitnessAbsent ==
    /\ init_response.ok
    /\ init_response.headers = NoHeaders
    /\ session_id = None
    /\ Decoded
    /\ outcome = ResultOutcome(CreatedText)

\* C23: the initialized notification is fire-and-forget: whatever becomes of
\* it (a 2xx status, another status, or a transport failure while it is
\* sent), the tools/call request is still sent and the outcome of the
\* invocation is what the tools/call response alone gives.
C23_NotificationIgnored ==
    (pc = "done" /\ Sent("notifications/initialized") # {}) =>
        /\ Sent("tools/call") # {}
        /\ outcome = HandleToolResponse(tool_response)

(***************************************************************************)
(* Further properties of the tool functions.                               *)
(***************************************************************************)
\* C24: the text that the functions of working_agent.py classify is the
\* first that applies of: the result nested in structuredContent, the text
\* of the first element of content, the top-level result as text, and
\* otherwise the whole outcome as a string.
C24_ExtractionOrder ==
    (request.module = "working_agent" /\ agent_pc = "returned"
     /\ primary.outcome.kind = "return") =>
        LET o == primary.outcome
            claimed == IF HasResultKey(o, "structuredContent") \/ HasResultKey(o, "content")
                       THEN ServerNestedText
                       ELSE IF HasResultKey(o, "result") THEN o.result
                       ELSE Repr(o)
            used == IF request.fn = "create_monday_task_real"
                    THEN ExtractResultText(o) ELSE ExtractBoardsText(o) IN
        used = claimed

\* the tool response of invocation c is a JSON-RPC error message that
\* execute_mcp_tool decoded (tools.py lines 191-204)
ErrorReplied(c) ==
    /\ c.pc = "done"
    /\ c.outcome.kind = "return"
    /\ c.tool_response.ok
    /\ \E i \in 1..Len(c.tool_response.body) : IsErrorLine(c.tool_response.body[i])
\* what the claim expects of it
ExpectedClass(c) ==
    IF "You can set either" \in ServerWords(c.tool_response)
    THEN "conflict" ELSE "server error"
\* the class a caller gave the outcome, read off what the caller produced:
\* the sentence working_agent.py returns (lines 51-59), the sentence
\* task_follow_up says (perfect_agent.py lines 109-114) and the level at
\* which create_task_background logs (final_mvp_agent.py lines 56-61)
ClassOfSentence(text, n) ==
    IF text \in {WorkingConflict(n), task_follow_up(ErrorOutcome(ConflictText), n)}
    THEN "conflict"
    ELSE IF text \in {WorkingIssue(n), task_follow_up(ErrorOutcome(ArchivedText), n)}
    THEN "server error"
    ELSE "success"
ClassOfLog(level) ==
    IF level = "warning" THEN "conflict"
    ELSE IF level = "error" THEN "server error"
    ELSE "success"

\* C25: when the tool response is a JSON-RPC error message, the request is
\* classified as a conflict if the message of the error contains the marker
\* "You can set either" and as a server error otherwise, in every caller that
\* classifies outcomes: create_monday_task_real of working_agent.py,
\* task_follow_up of perfect_agent.py and create_task_background of
\* final_mvp_agent.py.
C25_ErrorMessageClass ==
    /\ (Completed("working_agent", "create_monday_task_real") /\ ErrorReplied(primary))
          => ClassOfSentence(returned[1], request.task_name) = ExpectedClass(primary)
    /\ \A k \in 1..Len(background) :
          LET task == background[k] IN
          (task.at = "done" /\ ErrorReplied(task.call)) =>
              /\ (task.coroutine = "task_follow_up" /\ task.say = "spoken")
                    => ClassOfSentence(said[Len(said)], request.task_name)
                          = ExpectedClass(task.call)
              /\ task.coroutine = "final_mvp_agent.create_task_background"
                    => ClassOfLog(task.log) = ExpectedClass(task.call)

\* the success confirmations of create_monday_task_real: working_agent.py
\* line 59, perfect_agent.py line 44, mvp_agent.py line 42
SuccessConfirmations(n) ==
    {WorkingSuccess(n),
     <<"Perfect! Task '", n, "' has been created in your Paid Media CRM board, Sir!">>}

\* C26: a result message whose text contains "error" in any letter case is
\* never reported as success: create_monday_task_real of working_agent.py,
\* mvp_agent.py and perfect_agent.py does not return the confirmation
\* "Perfect! Task ... has been created" for such an outcome.
C26_ErrorTextNeverSuccess ==
    \A m \in {"working_agent", "mvp_agent", "perfect_agent"} :
        (/\ Completed(m, "create_monday_task_real")
         /\ HasResultKey(primary.outcome, "result")
         /\ Contains(Lower(primary.outcome.result), "error"))
            => returned[1] \notin SuccessConfirmations(request.task_name)

AgentFairSpec ==
    /\ AgentSpec
    /\ WF_vars(BackgroundStart)
    /\ WF_vars(BackgroundReply)
    /\ WF_vars(BackgroundFinish)

\* the background task that the handler of TimeoutError scheduled
AfterTimeout == agent_pc = "timed_out" /\ Len(background) = 1
\* it has ended through its own code: its invocation returned or raised
\* into the task's handler of Exception, and the task logged its line
RanToCompletion ==
    /\ AfterTimeout
    /\ background[1].at = "done"
    /\ background[1].call.pc = "done"
    /\ background[1].call.outcome.kind \in {"return", "raise"}
    /\ background[1].log \in {"info", "warning", "error"}

\* C28: a background attempt scheduled after a timeout always runs to
\* completion: the return of the synchronous path never cancels it, and,
\* if every request of it is answered or fails, it eventually ends with an
\* outcome, every exception handled in the task.
C28_BackgroundCompletes ==
    /\ [](AfterTimeout => background[1].call.pc # "cancelled")
    /\ AfterTimeout ~> RanToCompletion
C28_Witness ==
    /\ RanToCompletion
    /\ request.module = "mvp_agent"
    /\ background[1].coroutine = "create_task_background"
    /\ background[1].call.outcome = ErrorOutcome(ArchivedText)
    /\ background[1].log = "error"

\* C29: a background follow-up is delivered to the session that originated
\* the request: with two sessions started in the same process, each entrypoint
\* assigning current_session, the follow-up of a request made in one session
\* is never spoken in the other.
C29_FollowUpInOwnSession ==
    \A k \in 1..Len(background) :
        (/\ Truthy(request.session)
         /\ background[k].at = "done"
         /\ background[k].say = "spoken")
            => background[k].session = request.session

\* C30: when the primary call completes before the soft deadline, whatever
\* its outcome, the guarded tool function returns a string derived from the
\* outcome and schedules no background completion, so that the remote tool
\* is invoked once for the request; a background completion exists only
\* after the deadline was exceeded.
C30_CompletedSchedulesNothing ==
    (/\ Guarded(request)
     /\ agent_pc = "returned"
     /\ primary.outcome.kind = "return")
        => /\ returned = <<OnCompletion(request, primary.outcome).text>>
           /\ background = <<>>

=============================================================================
